---- MODULE Spec2Model ----
(***************************************************************************)
(* Model of app.py, the EDSU result auto-matcher: two uploaded tables (the *)
(* manual result sheet and the portal template) are validated with         *)
(* validate_dataframe and, once both are valid and the button is pressed,  *)
(* reconciled by process_results, whose completed template is offered as a *)
(* CSV download.                                                           *)
(*                                                                         *)
(* A cell of text is a sequence of one-character strings; the missing      *)
(* value (pandas NaN) is the cell NaN, which is no text.  A table is a     *)
(* record [columns, rows]; a row is a function from the table's column     *)
(* names to cells, and the position of a row in rows is its index label    *)
(* (read_csv gives a RangeIndex).                                          *)
(***************************************************************************)
EXTENDS Integers, Sequences, FiniteSets, TLC

VARIABLES manual_df, template_df, pc, manual_result, template_result,
          st_error, merged, MatNo_clean, final_df, stats, csv_data

vars == <<manual_df, template_df, pc, manual_result, template_result,
          st_error, merged, MatNo_clean, final_df, stats, csv_data>>

\* Largest number of rows of an uploaded template / manual table.
MaxTemplateRows == 2
MaxManualRows == 2

------------------------------------------------------------------------------
(* Cells and text                                                          *)

NaN == <<"NaN">>
EmptyStr == <<>>

isna(v) == v = NaN

\* str.upper, on the letters the inputs use.
upper_char(c) ==
  CASE c = "a" -> "A"
    [] c = "b" -> "B"
    [] c = "n" -> "N"
    [] c = "j" -> "J"
    [] c = "p" -> "P"
    [] OTHER -> c

str_upper(s) == [i \in 1..Len(s) |-> upper_char(s[i])]

is_space(c) == c = " "

RECURSIVE lstrip(_)
lstrip(s) == IF s # <<>> /\ is_space(Head(s)) THEN lstrip(Tail(s)) ELSE s

RECURSIVE rstrip(_)
rstrip(s) ==
  IF s # <<>> /\ is_space(s[Len(s)]) THEN rstrip(SubSeq(s, 1, Len(s) - 1)) ELSE s

str_strip(s) == rstrip(lstrip(s))

\* Series.astype(str) on one value: the missing value becomes the text "nan".
astype_str(v) == IF isna(v) THEN <<"n", "a", "n">> ELSE v

\* Series.replace('NAN', np.nan) on one value: a whole-value match.
replace_NAN(s) == IF s = <<"N", "A", "N">> THEN NaN ELSE s

\* clean_matno on one value and on a column.
clean_matno_value(v) == replace_NAN(str_upper(str_strip(astype_str(v))))

clean_matno(matno_series) ==
  [i \in 1..Len(matno_series) |-> clean_matno_value(matno_series[i])]

------------------------------------------------------------------------------
(* Tables                                                                  *)

Column(df, col) == [i \in 1..Len(df.rows) |-> df.rows[i][col]]

Restrict(row, cols) == [c \in cols |-> row[c]]

\* DataFrame.empty: no rows or no columns.
df_empty(df) == df.rows = <<>> \/ df.columns = {}

ManualRequired == <<"MatNo", "CA", "Exam">>
TemplateRequired == <<"MatNo", "Name", "Department">>

Range(s) == {s[i] : i \in 1..Len(s)}

SeqsUpTo(S, n) == UNION {[1..k -> S] : k \in 0..n}

------------------------------------------------------------------------------
(* validate_dataframe                                                      *)

missing_columns(df, required_columns) ==
  SelectSeq(required_columns, LAMBDA col : col \notin df.columns)

\* df[col].isna().all() for col == 'MatNo'
matno_all_na(df) == \A i \in 1..Len(df.rows) : isna(df.rows[i]["MatNo"])

Message(kind, file_type, columns) ==
  [kind |-> kind, file_type |-> file_type, columns |-> columns]

\* validate_dataframe reporting only the first missing column.
validate_dataframe_first_missing(df, file_type, required_columns) ==
  IF df_empty(df)
  THEN <<FALSE, Message("file is empty", file_type, <<>>)>>
  ELSE IF missing_columns(df, required_columns) # <<>>
  THEN <<FALSE, Message("Missing required columns", file_type,
                        <<Head(missing_columns(df, required_columns))>>)>>
  ELSE IF "MatNo" \in Range(required_columns) /\ matno_all_na(df)
  THEN <<FALSE, Message("MatNo column cannot be completely empty", file_type, <<>>)>>
  ELSE <<TRUE, Message("Valid", file_type, <<>>)>>

\* Returns <<valid, message>>; the message records which text is returned
\* and the column names joined into it.
validate_dataframe(df, file_type, required_columns) ==
  IF df_empty(df)
  THEN <<FALSE, Message("file is empty", file_type, <<>>)>>
  ELSE IF missing_columns(df, required_columns) # <<>>
  THEN <<FALSE, Message("Missing required columns", file_type,
                        missing_columns(df, required_columns))>>
  ELSE IF "MatNo" \in Range(required_columns) /\ matno_all_na(df)
  THEN <<FALSE, Message("MatNo column cannot be completely empty", file_type, <<>>)>>
  ELSE <<TRUE, Message("Valid", file_type, <<>>)>>

------------------------------------------------------------------------------
(* process_results                                                         *)

\* df['MatNo_clean'] = clean_matno(df['MatNo'])
with_MatNo_clean(df) ==
  [i \in 1..Len(df.rows) |->
     df.rows[i] @@ [c \in {"MatNo_clean"} |-> clean_matno(Column(df, "MatNo"))[i]]]

\* DataFrame.dropna(subset=['MatNo_clean']), rows kept in order.
dropna(rows) == SelectSeq(rows, LAMBDA r : ~isna(r["MatNo_clean"]))

\* Series.duplicated().sum(): the rows whose key equals that of an earlier row.
duplicated_sum(keys) ==
  Cardinality({i \in 1..Len(keys) : \E j \in 1..(i - 1) : keys[j] = keys[i]})

score_columns_of(df) == SelectSeq(<<"CA", "Exam">>, LAMBDA c : c \in df.columns)

\* The merge done with how='inner': a left row without a right row is lost.
RECURSIVE pd_merge_inner(_, _, _)
pd_merge_inner(left, right, score_columns) ==
  IF left = <<>> THEN <<>>
  ELSE LET key == Head(left)["MatNo_clean"]
           found == SelectSeq(right, LAMBDA r : r["MatNo_clean"] = key)
           rows == [j \in 1..Len(found) |->
                      Restrict(found[j], {"MatNo_clean"} \cup Range(score_columns))]
       IN rows \o pd_merge_inner(Tail(left), right, score_columns)

\* pd.merge(left[['MatNo_clean']], right[merge_columns], on='MatNo_clean',
\* how='left'): left order kept; a left row gives one row per right row with
\* its key, in right order, or one row of missing scores when there is none.
\* The result has a fresh RangeIndex (the position in the sequence).
RECURSIVE pd_merge_left(_, _, _)
pd_merge_left(left, right, score_columns) ==
  IF left = <<>> THEN <<>>
  ELSE LET key == Head(left)["MatNo_clean"]
           found == SelectSeq(right, LAMBDA r : r["MatNo_clean"] = key)
           rows == IF found = <<>>
                   THEN << [c \in {"MatNo_clean"} \cup Range(score_columns) |->
                              IF c = "MatNo_clean" THEN key ELSE NaN] >>
                   ELSE [j \in 1..Len(found) |->
                           Restrict(found[j], {"MatNo_clean"} \cup Range(score_columns))]
       IN rows \o pd_merge_left(Tail(left), right, score_columns)

\* merged[col] = merged[col].fillna('') for every score column
fillna(rows, score_columns) ==
  [i \in 1..Len(rows) |->
     [c \in DOMAIN rows[i] |->
        IF c \in Range(score_columns) /\ isna(rows[i][c]) THEN EmptyStr ELSE rows[i][c]]]

\* The original structure stored only after the rows with an invalid MatNo
\* were removed.
original_template_after_dropna(template) ==
  LET kept == dropna(with_MatNo_clean(template))
  IN [i \in 1..Len(kept) |-> Restrict(kept[i], {"MatNo", "Name", "Department"})]

\* original_template = template_df[['MatNo', 'Name', 'Department']].copy()
original_template_of(template) ==
  [i \in 1..Len(template.rows) |->
     Restrict(template.rows[i], {"MatNo", "Name", "Department"})]

\* final_df = original_template.copy(); final_df[col] = merged[col]: the
\* assignment aligns on the index label, so the row at position i takes the
\* merged row at position i, and the missing value where merged has none.
combine(original_template, merged_rows, score_columns) ==
  [i \in 1..Len(original_template) |->
     original_template[i] @@
       [c \in Range(score_columns) |->
          IF i <= Len(merged_rows) THEN merged_rows[i][c] ELSE NaN]]

\* The rows of merged whose first score column is (not) the empty string.
blank_first_score(merged_rows, score_columns) ==
  SelectSeq(merged_rows, LAMBDA r : r[score_columns[1]] = EmptyStr)

filled_first_score(merged_rows, score_columns) ==
  SelectSeq(merged_rows, LAMBDA r : r[score_columns[1]] # EmptyStr)

make_stats(template_rows, manual_rows, merged_rows, score_columns) ==
  [total_template_records |-> Len(template_rows),
   total_manual_records |-> Len(manual_rows),
   successful_matches |->
     IF score_columns # <<>> THEN Len(filled_first_score(merged_rows, score_columns)) ELSE 0,
   unmatched_records |->
     IF score_columns # <<>> THEN Len(blank_first_score(merged_rows, score_columns)) ELSE 0,
   manual_duplicates |-> duplicated_sum(Column([rows |-> manual_rows], "MatNo_clean")),
   template_duplicates |-> duplicated_sum(Column([rows |-> template_rows], "MatNo_clean")),
   unmatched_matnos |->
     IF score_columns # <<>>
     THEN Column([rows |-> blank_first_score(merged_rows, score_columns)], "MatNo_clean")
     ELSE <<>>]

\* The function's locals that the properties read are returned with its results.
process_results(manual, template) ==
  LET original_template == original_template_of(template)
      manual_clean == with_MatNo_clean(manual)
      template_clean == with_MatNo_clean(template)
      manual_rows == dropna(manual_clean)
      template_rows == dropna(template_clean)
      score_columns == score_columns_of(manual)
      merged_rows == fillna(pd_merge_left(template_rows, manual_rows, score_columns),
                            score_columns)
  IN [final_df |-> combine(original_template, merged_rows, score_columns),
      stats |-> make_stats(template_rows, manual_rows, merged_rows, score_columns),
      merged |-> merged_rows,
      MatNo_clean |-> [manual |-> Column([rows |-> manual_clean], "MatNo_clean"),
                       template |-> Column([rows |-> template_clean], "MatNo_clean")]]

\* final_df.to_csv(csv_buffer, index=False): a header line and one line per
\* row; the missing value is written as the empty field.
to_csv(rows, score_columns) ==
  LET header == <<"MatNo", "Name", "Department">> \o score_columns
  IN [header |-> header,
      lines |-> [i \in 1..Len(rows) |->
                   [k \in 1..Len(header) |->
                      IF isna(rows[i][header[k]]) THEN EmptyStr ELSE rows[i][header[k]]]]]

------------------------------------------------------------------------------
(* Uploaded files                                                          *)

TemplateMatNos == {NaN, <<" ">>, <<" ", "a">>, <<"b">>, <<"N", "A", "N">>}
ManualMatNos == {NaN, <<" ">>, <<"A">>, <<"b">>}
ManualScores == {<<NaN, <<"5">>>>, <<<<"1">>, <<"6">>>>}

TemplateRowChoices ==
  {[MatNo |-> m, Name |-> <<"j">>, Department |-> <<"P">>] : m \in TemplateMatNos}

ManualRowChoices ==
  {[MatNo |-> m, Name |-> <<"J">>, Department |-> <<"p">>, CA |-> sc[1], Exam |-> sc[2]] :
     m \in ManualMatNos, sc \in ManualScores}

ManualColumns == {"MatNo", "Name", "Department", "CA", "Exam"}
TemplateColumns == {"MatNo", "Name", "Department"}

\* A template may carry empty CA and Exam columns of its own.
WithEmptyScores(rows) ==
  [i \in 1..Len(rows) |-> rows[i] @@ [c \in {"CA", "Exam"} |-> NaN]]

\* Tables lacking a required column: every non-empty proper subset of the
\* required columns, over a small choice of rows.
DefectiveColumnSets(required) == (SUBSET Range(required)) \ {{}, Range(required)}

DefectiveManualRows ==
  {[MatNo |-> m, CA |-> <<"1">>, Exam |-> <<"5">>] : m \in {NaN, <<"A">>}}
DefectiveTemplateRows ==
  {[MatNo |-> m, Name |-> <<"j">>, Department |-> <<"P">>] : m \in {NaN, <<"b">>}}

Project(rows, cols) == [i \in 1..Len(rows) |-> Restrict(rows[i], cols)]

ManualTables ==
  {[columns |-> ManualColumns, rows |-> rs] :
     rs \in SeqsUpTo(ManualRowChoices, MaxManualRows)}
  \cup
  {[columns |-> cols, rows |-> Project(rs, cols)] :
     cols \in DefectiveColumnSets(ManualRequired),
     rs \in SeqsUpTo(DefectiveManualRows, MaxManualRows)}

TemplateTables ==
  {[columns |-> TemplateColumns, rows |-> rs] :
     rs \in SeqsUpTo(TemplateRowChoices, MaxTemplateRows)}
  \cup
  {[columns |-> TemplateColumns \cup {"CA", "Exam"}, rows |-> WithEmptyScores(rs)] :
     rs \in SeqsUpTo(TemplateRowChoices, MaxTemplateRows)}
  \cup
  {[columns |-> cols, rows |-> Project(rs, cols)] :
     cols \in DefectiveColumnSets(TemplateRequired),
     rs \in SeqsUpTo(DefectiveTemplateRows, MaxTemplateRows)}

------------------------------------------------------------------------------
(* The page script                                                         *)

\* Both files uploaded and read; nothing validated or produced yet.
Init ==
  /\ manual_df \in ManualTables
  /\ template_df \in TemplateTables
  /\ pc = "uploaded"
  /\ manual_result = <<>>
  /\ template_result = <<>>
  /\ st_error = <<>>
  /\ merged = <<>>
  /\ MatNo_clean = [manual |-> <<>>, template |-> <<>>]
  /\ final_df = <<>>
  /\ stats = <<>>
  /\ csv_data = <<>>

\* Both tables are validated; the first failure, the manual table's first, is
\* shown as the error.
Validate ==
  /\ pc = "uploaded"
  /\ LET m == validate_dataframe(manual_df, "Manual Result", ManualRequired)
         t == validate_dataframe(template_df, "Portal Template", TemplateRequired)
     IN /\ manual_result' = m
        /\ template_result' = t
        /\ st_error' = IF ~m[1] THEN <<m[2]>> ELSE IF ~t[1] THEN <<t[2]>> ELSE <<>>
        /\ pc' = IF m[1] /\ t[1] THEN "validated" ELSE "invalid"
  /\ UNCHANGED <<manual_df, template_df, merged, MatNo_clean, final_df, stats, csv_data>>

\* The "Process Results" button, shown only when both tables validated.
ProcessButton ==
  /\ pc = "validated"
  /\ LET r == process_results(manual_df, template_df)
     IN /\ final_df' = r.final_df
        /\ stats' = <<r.stats>>
        /\ merged' = r.merged
        /\ MatNo_clean' = r.MatNo_clean
        /\ csv_data' = <<to_csv(r.final_df, score_columns_of(manual_df))>>
  /\ pc' = "processed"
  /\ UNCHANGED <<manual_df, template_df, manual_result, template_result, st_error>>

Next == Validate \/ ProcessButton

Spec == Init /\ [][Next]_vars

------------------------------------------------------------------------------
(* Vocabulary of the properties                                            *)

Processed == pc = "processed"
Validated == pc # "uploaded"

Stats == stats[1]

TRows == template_df.rows
MRows == manual_df.rows

\* The cleaned identifier of the specification: trimmed and uppercased, the
\* empty text for a missing or blank identifier.
CleanedIdentifier(raw) == IF isna(raw) THEN EmptyStr ELSE str_upper(str_strip(raw))

lower_char(c) ==
  CASE c = "J" -> "j"
    [] c = "P" -> "p"
    [] OTHER -> c

\* The normalized name or department of the specification: trimmed and
\* lowercased, the empty text when missing.
NormalizedText(raw) ==
  IF isna(raw) THEN EmptyStr
  ELSE [i \in 1..Len(str_strip(raw)) |-> lower_char(str_strip(raw)[i])]

\* The manual rows that are template row i's counterparts by identifier.
IdMatches(i) ==
  {j \in 1..Len(MRows) :
     /\ CleanedIdentifier(TRows[i]["MatNo"]) # EmptyStr
     /\ CleanedIdentifier(MRows[j]["MatNo"]) = CleanedIdentifier(TRows[i]["MatNo"])}

\* The manual rows that agree with template row i on name and department.
NameDeptMatches(i) ==
  {j \in 1..Len(MRows) :
     /\ NormalizedText(TRows[i]["Name"]) # EmptyStr
     /\ NormalizedText(TRows[i]["Department"]) # EmptyStr
     /\ NormalizedText(MRows[j]["Name"]) = NormalizedText(TRows[i]["Name"])
     /\ NormalizedText(MRows[j]["Department"]) = NormalizedText(TRows[i]["Department"])}

First(S) == CHOOSE j \in S : \A k \in S : j <= k

\* A score as the completed template shows it: blank for a missing score.
ScoreText(v) == IF isna(v) THEN EmptyStr ELSE v

HasScoresOf(i, j) ==
  /\ final_df[i]["CA"] = ScoreText(MRows[j]["CA"])
  /\ final_df[i]["Exam"] = ScoreText(MRows[j]["Exam"])

HasBlankScores(i) == final_df[i]["CA"] = EmptyStr /\ final_df[i]["Exam"] = EmptyStr

Count(seq, v) == Cardinality({k \in 1..Len(seq) : seq[k] = v})

\* The positions of S in increasing order.
RECURSIVE InOrder(_)
InOrder(S) == IF S = {} THEN <<>> ELSE <<First(S)>> \o InOrder(S \ {First(S)})

------------------------------------------------------------------------------
(* Properties                                                              *)

\* C1: a template row whose cleaned identifier equals that of exactly one
\* manual row has that manual row's CA and Exam in the completed template,
\* whatever the other rows contain.
C1_IdentifierMatchPriority ==
  Processed =>
    \A i \in 1..Len(TRows) :
      Cardinality(IdMatches(i)) = 1 => \A j \in IdMatches(i) : HasScoresOf(i, j)

\* C2: the completed template has the input template's rows, in order, each
\* with the original MatNo, Name and Department, and its columns are MatNo,
\* Name, Department and the score columns; MatNo_clean is not among them.
C2_RowCountAndOrder ==
  Processed =>
    /\ Len(final_df) = Len(TRows)
    /\ \A i \in 1..Len(TRows) :
         /\ i \in DOMAIN final_df
         /\ DOMAIN final_df[i] = {"MatNo", "Name", "Department", "CA", "Exam"}
         /\ final_df[i]["MatNo"] = TRows[i]["MatNo"]
         /\ final_df[i]["Name"] = TRows[i]["Name"]
         /\ final_df[i]["Department"] = TRows[i]["Department"]
    /\ csv_data[1].header = <<"MatNo", "Name", "Department", "CA", "Exam">>
    /\ Len(csv_data[1].lines) = Len(TRows)

\* C2's case: a full-length template holding a row whose identifier is missing
\* and a row whose identifier differs from its cleaned form, with score
\* columns of its own.
C2_Witness ==
  /\ Processed
  /\ Len(TRows) = MaxTemplateRows
  /\ "CA" \in template_df.columns
  /\ \E i, k \in 1..Len(TRows) :
       /\ isna(TRows[i]["MatNo"])
       /\ TRows[k]["MatNo"] = <<" ", "a">>
       /\ MatNo_clean.template[k] = <<"A">>
       /\ final_df[k]["MatNo"] = <<" ", "a">>

\* C3: no CA or Exam cell of the completed template is the missing value.
C3_NoNullLeakage ==
  Processed =>
    \A i \in 1..Len(final_df) : ~isna(final_df[i]["CA"]) /\ ~isna(final_df[i]["Exam"])

\* C4: a template row without a manual counterpart has blank CA and Exam, and
\* the unmatched list and count hold exactly those rows, in template order.
C4_UnmatchedRows ==
  Processed =>
    LET U == {i \in 1..Len(TRows) : IdMatches(i) = {}}
    IN /\ \A i \in U : HasBlankScores(i)
       /\ Stats.unmatched_records = Cardinality(U)
       /\ Len(Stats.unmatched_matnos) = Cardinality(U)
       /\ \A k \in 1..Cardinality(U) :
            k \in DOMAIN Stats.unmatched_matnos =>
              Stats.unmatched_matnos[k] = CleanedIdentifier(TRows[InOrder(U)[k]]["MatNo"])

\* The manual table without the later rows of a repeated cleaned identifier.
WithoutLaterDuplicates(df) ==
  [columns |-> df.columns,
   rows |-> SelectSeq(df.rows, LAMBDA r :
              \/ CleanedIdentifier(r["MatNo"]) = EmptyStr
              \/ r = df.rows[First({j \in 1..Len(df.rows) :
                         CleanedIdentifier(df.rows[j]["MatNo"]) =
                           CleanedIdentifier(r["MatNo"])})])]

\* C5: a template row whose identifier is repeated in the manual table gets
\* the first such manual row's scores and one output row, the manual duplicate
\* count is non-zero, and the other template rows get the scores they get
\* without the duplicates.
C5_DuplicateHandling ==
  Processed =>
    /\ \A i \in 1..Len(TRows) :
         Cardinality(IdMatches(i)) >= 2 =>
           /\ HasScoresOf(i, First(IdMatches(i)))
           /\ Stats.manual_duplicates > 0
           /\ Len(final_df) = Len(TRows)
    /\ \A i \in 1..Len(TRows) :
         Cardinality(IdMatches(i)) < 2 =>
           final_df[i] =
             process_results(WithoutLaterDuplicates(manual_df), template_df).final_df[i]

\* C6: a template row whose cleaned identifier is empty gets no scores.
C6_NoValueNonMatch ==
  Processed =>
    \A i \in 1..Len(TRows) :
      CleanedIdentifier(TRows[i]["MatNo"]) = EmptyStr => HasBlankScores(i)

\* What C7 says clean_matno yields: no value for a missing or blank
\* identifier, and the trimmed, uppercased identifier otherwise.
TrimAndUppercase(raw) ==
  IF isna(raw) \/ str_strip(raw) = EmptyStr THEN NaN ELSE str_upper(str_strip(raw))

\* C7: clean_matno yields no value exactly for a missing or blank identifier
\* and the trimmed, uppercased identifier for every other.
C7_IdentifierNormalization ==
  Processed =>
    /\ \A i \in 1..Len(TRows) : MatNo_clean.template[i] = TrimAndUppercase(TRows[i]["MatNo"])
    /\ \A j \in 1..Len(MRows) : MatNo_clean.manual[j] = TrimAndUppercase(MRows[j]["MatNo"])

\* C8: the statistics count the template's rows, those with a manual
\* counterpart and those without, and the last two add up to the first.
C8_StatisticsAccurate ==
  Processed =>
    /\ Stats.total_template_records = Len(TRows)
    /\ Stats.successful_matches = Cardinality({i \in 1..Len(TRows) : IdMatches(i) # {}})
    /\ Stats.unmatched_records = Cardinality({i \in 1..Len(TRows) : IdMatches(i) = {}})
    /\ Stats.successful_matches + Stats.unmatched_records = Stats.total_template_records

\* C9 as stated: a template row without an identifier match whose normalized
\* name and department are non-empty and equal those of a manual row gets the
\* scores of the first such manual row.
C9_NameDepartmentFallback ==
  Processed =>
    \A i \in 1..Len(TRows) :
      (IdMatches(i) = {} /\ NameDeptMatches(i) # {}) =>
        HasScoresOf(i, First(NameDeptMatches(i)))

\* Template row i keeps its cleaned MatNo and no manual row has it.
NoKeyMatch(i) ==
  /\ ~isna(MatNo_clean.template[i])
  /\ \A j \in 1..Len(MRows) : MatNo_clean.manual[j] # MatNo_clean.template[i]

\* C9 amended: matching is by cleaned MatNo alone.  A template row that keeps
\* its cleaned MatNo and finds it in no manual row is joined to no manual row,
\* also when its normalized name and department equal those of a manual row:
\* merged holds one row with blank CA and Exam for each such template row, and
\* unmatched_matnos lists its cleaned MatNo once for each.
C9_NoFallbackTier ==
  Processed =>
    \A i \in 1..Len(TRows) :
      (NoKeyMatch(i) /\ NameDeptMatches(i) # {}) =>
        LET key == MatNo_clean.template[i]
            n == Count(MatNo_clean.template, key)
        IN /\ Count(Stats.unmatched_matnos, key) = n
           /\ Cardinality({k \in 1..Len(merged) : merged[k]["MatNo_clean"] = key}) = n
           /\ \A k \in 1..Len(merged) :
                merged[k]["MatNo_clean"] = key =>
                  merged[k]["CA"] = EmptyStr /\ merged[k]["Exam"] = EmptyStr

\* C9's case: a template row with an identifier no manual row has, and a
\* manual row with scores that has its normalized name and department.
C9_Witness ==
  /\ Processed
  /\ \E i \in 1..Len(TRows) :
       /\ NoKeyMatch(i)
       /\ \E j \in NameDeptMatches(i) : ~isna(MRows[j]["CA"])
       /\ Count(Stats.unmatched_matnos, MatNo_clean.template[i]) = 1

Tables ==
  {<<manual_df, manual_result, ManualRequired>>,
   <<template_df, template_result, TemplateRequired>>}

Absent(df, required) == {c \in Range(required) : c \notin df.columns}

NothingProduced == final_df = <<>> /\ stats = <<>> /\ csv_data = <<>> /\ merged = <<>>

\* What C10 says beyond the message of a table that lacks columns.
ValidationGates ==
  /\ Validated =>
       \A t \in Tables :
         /\ df_empty(t[1]) => ~t[2][1]
         /\ ("MatNo" \in t[1].columns /\ matno_all_na(t[1])) => ~t[2][1]
  /\ pc \in {"validated", "processed"} <=>
       (Validated /\ manual_result[1] /\ template_result[1])
  /\ pc \in {"uploaded", "invalid"} => NothingProduced
  /\ pc = "invalid" => st_error # <<>>

NamesEveryAbsentColumn(t) ==
  /\ ~t[2][1]
  /\ t[2][2].kind = "Missing required columns"
  /\ Range(t[2][2].columns) = Absent(t[1], t[3])
  /\ Len(t[2][2].columns) = Cardinality(Absent(t[1], t[3]))

\* C10 as stated: validation fails with a message naming every absent
\* required column, fails for an empty table or an all-missing MatNo column,
\* and nothing is produced unless both tables validated.
C10_ValidationGates ==
  /\ ValidationGates
  /\ Validated =>
       \A t \in Tables : Absent(t[1], t[3]) # {} => NamesEveryAbsentColumn(t)

\* C10 amended: a table that has rows and lacks required columns fails with a
\* message naming every absent one; a table without rows fails as empty,
\* whatever its columns; the rest as stated.
C10_ValidationGatesNonEmpty ==
  /\ ValidationGates
  /\ Validated =>
       \A t \in Tables :
         /\ (~df_empty(t[1]) /\ Absent(t[1], t[3]) # {}) => NamesEveryAbsentColumn(t)
         /\ df_empty(t[1]) => t[2][2].kind = "file is empty"

\* C10's case: a manual table with rows that lacks two required columns was
\* rejected with both named.
C10_Witness ==
  /\ pc = "invalid"
  /\ manual_df.rows # <<>>
  /\ Cardinality(Absent(manual_df, ManualRequired)) = 2
  /\ st_error # <<>>
  /\ Len(st_error[1].columns) = 2

====
